---------------------------- MODULE Spec2Model ----------------------------
(***************************************************************************)
(* Model of igo-unidic (src/src/lib.rs): the decoder that turns the        *)
(* comma-separated feature string of one tagger morpheme into a typed      *)
(* Morpheme, and Parser::parse, which maps it over the tagger's output.    *)
(*                                                                         *)
(* Strings are sequences of symbols.  The three delimiter characters       *)
(* (",", "-" and the one-character second delimiter of split_type) are     *)
(* symbols of their own; every dictionary word that the source compares    *)
(* as a whole (a tag spelling) is one symbol, written here in romanised    *)
(* form (the spellings are Japanese), since no tag spelling contains a     *)
(* delimiter.  A string of several symbols is therefore never equal to a   *)
(* tag.                                                                    *)
(*                                                                         *)
(* Indices are the source's (0-based): Idx(v, i) is v[i].                  *)
(***************************************************************************)
EXTENDS Integers, Sequences, FiniteSets, TLC

\* ------------------------------------------------------------------ bounds
\* Longest feature tuple generated (the origin marker is field 12).
MaxFields == 14
\* Longest tagger output generated for a multi-morpheme parse.
MaxMorphs == 3
\* Longest string handed to split_type on its own.
MaxLen == 5

\* ----------------------------------------------------------------- strings
Comma == ","
DelimA == "-"
DelimB == "~"

Str(w) == <<w>>
Empty == <<>>
Star == Str("*")

Contains(s, d) == \E i \in 1..Len(s) : s[i] = d

\* str::split(d): every segment between occurrences of d, in order; a string
\* without d (the empty string included) is its own single segment.
RECURSIVE SplitOn(_, _)
SplitOn(s, d) ==
    IF ~Contains(s, d) THEN <<s>>
    ELSE LET i == CHOOSE i \in 1..Len(s) :
                      s[i] = d /\ \A j \in 1..(i - 1) : s[j] # d
         IN  <<SubSeq(s, 1, i - 1)>> \o SplitOn(SubSeq(s, i + 1, Len(s)), d)

\* Iterator::next().unwrap_or("") for the n-th call (n = 1, 2).
NextOrEmpty(segs, n) == IF Len(segs) >= n THEN segs[n] ELSE Empty

\* A plausible slip: splitn(2), the second half runs to the end of the string.
split_type_Rest(inp) ==
    LET d == IF Contains(inp, DelimA) THEN DelimA ELSE DelimB
        s == SplitOn(inp, d)
    IN  <<NextOrEmpty(s, 1),
          IF Len(s) >= 2 THEN SubSeq(inp, Len(s[1]) + 2, Len(inp)) ELSE Empty>>

\* split_type (lines 438-445): the pair (.0, .1).
split_type(inp) ==
    LET s == IF Contains(inp, DelimA) THEN SplitOn(inp, DelimA)
             ELSE SplitOn(inp, DelimB)
    IN  <<NextOrEmpty(s, 1), NextOrEmpty(s, 2)>>

\* str_or_empty (lines 447-453).
Idx(v, i) == v[i + 1]
Has(v, i) == Len(v) > i
str_or_empty(vec, pos) == IF Len(vec) > pos THEN Idx(vec, pos) ELSE Empty

\* ----------------------------------------------------------------- results
\* Result<T, String>, plus the panic of an out-of-range vec index.  An error
\* string format!("<text> {}", tag) is the pair (text, tag).
NoVal == "-"
NoErr == [msg |-> "-", tag |-> Empty, index |-> -1]
Ok(v) == [k |-> "Ok", v |-> v, e |-> NoErr]
Err(msg, tag) == [k |-> "Err", v |-> NoVal, e |-> [msg |-> msg, tag |-> tag, index |-> -1]]
IndexPanic(i) ==
    [k |-> "IndexPanic", v |-> NoVal,
     e |-> [msg |-> "index out of bounds", tag |-> Empty, index |-> i]]


\* ---------------------------------------------------------- syllable rows
\* SyllableRow::try_from (lines 393-415): the 15 row spellings.
RowTable ==
    [ga |-> "G", ka |-> "K", ma |-> "M", a |-> "A", ra |-> "R", sa |-> "S",
     za |-> "Z", ta |-> "T", da |-> "D", ha |-> "H", ba |-> "B", pa |-> "P",
     na |-> "N", waa |-> "Wa", ya |-> "Y"]
RowTags == {Str(w) : w \in DOMAIN RowTable}

SyllableRow_try_from(value) ==
    IF value \in RowTags THEN Ok(RowTable[value[1]])
    ELSE Err("Syllable ending not found", value)

\* ------------------------------------------------------------------- verbs
\* VerbType::parse_general (lines 350-367): conjugation-group spellings.
GodanTags == {Str("godan"), Str("bungoKaminidan"), Str("bungoYodan"),
              Str("bungoShimonidan"), Str("yodanKei")}
IchidanTags == {Str("ichidan"), Str("kamiIchidan"), Str("shimoIchidan")}
SuruTags == {Str("sagyouHenkaku"), Str("bungoSagyouHenkaku")}
KuruTags == {Str("kagyouHenkaku")}
IrregRuTags == {Str("ragyouHenkaku"), Str("bungoRagyouHenkaku")}
IrregNuTags == {Str("nagyouHenkaku"), Str("bungoNagyouHenkaku")}
IrrWrittenLangTags == {Str("bungoKagyouHenkaku"), Str("bungoJodoushi")}
VerbGroupTags == GodanTags \cup IchidanTags \cup SuruTags \cup KuruTags
                    \cup IrregRuTags \cup IrregNuTags \cup IrrWrittenLangTags

NoRow == "-"
\* VerbType<'a> (lines 324-334): variant, row of Godan/Ichidan, raw suffix of
\* Auxilary.
VT(sub, row, raw) == [sub |-> sub, row |-> row, raw |-> raw]

WithRow(sub, r) == IF r.k = "Ok" THEN Ok(VT(sub, r.v, Empty)) ELSE r

\* The match on verb_type.0 (lines 352-366).
GroupOf(vt) ==
    CASE vt[1] \in GodanTags -> WithRow("Godan", SyllableRow_try_from(vt[2]))
      [] vt[1] \in IchidanTags -> WithRow("Ichidan", SyllableRow_try_from(vt[2]))
      [] vt[1] \in SuruTags -> Ok(VT("Suru", NoRow, Empty))
      [] vt[1] \in KuruTags -> Ok(VT("Kuru", NoRow, Empty))
      [] vt[1] \in IrregRuTags -> Ok(VT("IrregRu", NoRow, Empty))
      [] vt[1] \in IrregNuTags -> Ok(VT("IrregNu", NoRow, Empty))
      [] vt[1] \in IrrWrittenLangTags -> Ok(VT("IrrWrittenLang", NoRow, Empty))
      [] OTHER -> Err("Verbtype not found", vt[1])

\* A plausible slip: the row is resolved before the group is looked at, so
\* it is demanded of every group.
parse_general_RowAlways(verb_type) ==
    LET vt == split_type(verb_type)
        r  == SyllableRow_try_from(vt[2])
    IN  IF r.k # "Ok" THEN r ELSE GroupOf(vt)

\* A plausible slip: one Ichidan spelling yields the variant the enum
\* declares for it (line 328) and the match never builds.
parse_general_Eru(verb_type) ==
    LET vt == split_type(verb_type)
    IN  IF vt[1] = Str("ichidan")
        THEN Ok(VT("IchidanEruConjungation", NoRow, Empty))
        ELSE GroupOf(vt)

\* VerbType::parse_general (lines 350-367).
parse_general(verb_type) == GroupOf(split_type(verb_type))

Jodoushi == Str("jodoushi")
Doushi == Str("doushi")

\* A plausible slip: the auxiliary's field 4 goes through the group table too.
VerbType_try_from_Checked(value) ==
    IF ~Has(value, 4) THEN IndexPanic(4)
    ELSE LET verb_type == Idx(value, 4)
         IN  CASE Idx(value, 0) \in {Jodoushi, Doushi} -> parse_general(verb_type)
               [] OTHER -> Err("Verb not found", Idx(value, 0))

\* VerbType::try_from (lines 336-347).  value[4] is read before the match.
VerbType_try_from(value) ==
    IF ~Has(value, 4) THEN IndexPanic(4)
    ELSE LET verb_type == Idx(value, 4)
         IN  CASE Idx(value, 0) = Jodoushi ->
                      Ok(VT("Auxilary", NoRow, split_type(verb_type)[2]))
               [] Idx(value, 0) = Doushi -> parse_general(verb_type)
               [] OTHER -> Err("Verb not found", Idx(value, 0))

\* ------------------------------------------------------------------- nouns
\* NounType::try_from (lines 258-270).
NounTable ==
    [futsuuMeishi |-> "Common", koyuuMeishi |-> "Proper", suushi |-> "Numeral",
     suu |-> "Numeral", setsubi |-> "Suffix", jodoushiGokan |-> "Jodoushi"]
NounTags == {Str(w) : w \in DOMAIN NounTable}

NounType_try_from(value) ==
    IF ~Has(value, 1) THEN IndexPanic(1)
    ELSE IF Idx(value, 1) \in NounTags THEN Ok(NounTable[Idx(value, 1)[1]])
    ELSE Err("Nountype not found", Idx(value, 1))

\* --------------------------------------------------------------- particles
\* ParticleType::try_from (lines 285-298).
ParticleTable ==
    [kakariJoshi |-> "Connecting", shuuJoshi |-> "SentenceEnding",
     kakuJoshi |-> "CaseMaking", setsuzokuJoshi |-> "Conjungtion",
     fukuJoshi |-> "Adverbial", juntaiJoshi |-> "Nominalizing"]
ParticleTags == {Str(w) : w \in DOMAIN ParticleTable}

ParticleType_try_from(value) ==
    IF ~Has(value, 1) THEN IndexPanic(1)
    ELSE IF Idx(value, 1) \in ParticleTags THEN Ok(ParticleTable[Idx(value, 1)[1]])
    ELSE Err("particle not found", Idx(value, 1))

\* -------------------------------------------------------------- adjectives
\* AdjectiveType::try_from (lines 309-318), decided by field 0 itself.
Keiyoushi == Str("keiyoushi")
Keijoushi == Str("keijoushi")

AdjectiveType_try_from(value) ==
    IF ~Has(value, 0) THEN IndexPanic(0)
    ELSE CASE Idx(value, 0) = Keiyoushi -> Ok("I")
           [] Idx(value, 0) = Keijoushi -> Ok("Na")
           [] OTHER -> Err("adjective not found", Idx(value, 0))

\* -------------------------------------------------------------- word class
\* WordClass<'a> (lines 135-149): variant, subtype variant, and the data the
\* Verb subtype carries.
NoSub == "-"
WC(class, sub, row, raw) == [class |-> class, sub |-> sub, row |-> row, raw |-> raw]
Plain(class) == Ok(WC(class, NoSub, NoRow, Empty))
\* Variant(Sub::try_from(value)?) for a subtype without data.
Sub(class, r) == IF r.k = "Ok" THEN Ok(WC(class, r.v, NoRow, Empty)) ELSE r
\* WordClass::Verb(VerbType::try_from(value)?).
SubVerb(r) == IF r.k = "Ok" THEN Ok(WC("Verb", r.v.sub, r.v.row, r.v.raw)) ELSE r

Joshi == Str("joshi")
Meishi == Str("meishi")
Fukushi == Str("fukushi")
\* Field-0 spellings of the variants that carry no subtype (lines 231-240).
PlainClassTable ==
    [daimeishi |-> "Pronoun", kandoushi |-> "Interjection",
     hojoKigou |-> "Symbol", kigou |-> "Symbol", setsuzokushi |-> "Conjungtion",
     setsubiji |-> "Suffix", settouji |-> "Prefix", fukushi |-> "Adverb",
     kuuhaku |-> "Space", rentaishi |-> "PreNoun"]
PlainClassTags == {Str(w) : w \in DOMAIN PlainClassTable}
WordClassTags == {Joshi, Keiyoushi, Keijoushi, Jodoushi, Doushi, Meishi}
                    \cup PlainClassTags

\* A plausible slip: an unknown word class takes the Default variant (Adverb,
\* lines 151-155).
WordClass_try_from_Default(value) ==
    IF ~Has(value, 0) THEN IndexPanic(0)
    ELSE LET t == Idx(value, 0)
         IN  CASE t = Joshi -> Sub("Particle", ParticleType_try_from(value))
               [] t \in {Keiyoushi, Keijoushi} ->
                      Sub("Adjective", AdjectiveType_try_from(value))
               [] t \in {Jodoushi, Doushi} -> SubVerb(VerbType_try_from(value))
               [] t \in PlainClassTags -> Plain(PlainClassTable[t[1]])
               [] t = Meishi -> Sub("Noun", NounType_try_from(value))
               [] OTHER -> Plain("Adverb")

\* WordClass::try_from (lines 224-244).
WordClass_try_from(value) ==
    IF ~Has(value, 0) THEN IndexPanic(0)
    ELSE LET t == Idx(value, 0)
         IN  CASE t = Joshi -> Sub("Particle", ParticleType_try_from(value))
               [] t \in {Keiyoushi, Keijoushi} ->
                      Sub("Adjective", AdjectiveType_try_from(value))
               [] t \in {Jodoushi, Doushi} -> SubVerb(VerbType_try_from(value))
               [] t \in PlainClassTags -> Plain(PlainClassTable[t[1]])
               [] t = Meishi -> Sub("Noun", NounType_try_from(value))
               [] OTHER -> Err("wc not found", t)

\* ------------------------------------------------------------- conjugation
\* ConjungationForm::try_from (lines 113-132): the first half of field 5.
FormTable ==
    [shuushikei |-> "Plain", meireikei |-> "Imperative", mizenkei |-> "Negative",
     rentaikei |-> "Attributive", renyoukei |-> "Continuous",
     kateikei |-> "Conditional", gokan |-> "Stem", izenkei |-> "Realis",
     ishiSuiryoukei |-> "None", kugohou |-> "Kugohou"]
IshiSuiryoukei == Str("ishiSuiryoukei")
FormTags == {Star} \cup {Str(w) : w \in DOMAIN FormTable}

ConjungationForm_try_from(value) ==
    IF ~Has(value, 5) THEN IndexPanic(5)
    ELSE LET t == split_type(Idx(value, 5))[1]
         IN  CASE t = Star -> Ok("None")
               [] t \in FormTags -> Ok(FormTable[t[1]])
               [] OTHER -> Err("conjungation form not found", t)

\* ConjungationKind::try_from (lines 103-111): value[4] is indexed, and every
\* value matches the one arm.
ConjungationKind_try_from(value) ==
    IF ~Has(value, 4) THEN IndexPanic(4) ELSE Ok("None")

\* ------------------------------------------------------------------ origin
\* Origin::from_string (lines 423-431): Option<Origin>.
Kan == Str("kan")
Wa == Str("wa")
None == "None"

Origin_from_string(s) ==
    CASE s = Kan -> "China"
      [] s = Wa -> "Japan"
      [] OTHER -> None

\* A plausible slip: the length test is off by one.
OriginOf_Gt13(features) ==
    IF Len(features) > 13 THEN Origin_from_string(Idx(features, 12)) ELSE None

\* Lines 55-59 of Morpheme::from.
OriginOf(features) ==
    IF Len(features) > 12 THEN Origin_from_string(Idx(features, 12)) ELSE None

\* ---------------------------------------------------------------- Morpheme
\* igo::Morpheme: what the tagger hands over for one morpheme.
IgoM(surface, start, feature) ==
    [surface |-> surface, start |-> start, feature |-> feature]

\* Morpheme<'dict, 'input> (lines 29-39).
NoMorpheme ==
    [surface |-> Empty, basic |-> Empty,
     word_class |-> WC(NoSub, NoSub, NoRow, Empty),
     conjungation |-> [kind |-> NoSub, form |-> NoSub],
     origin |-> None, reading |-> Empty, lexeme |-> Empty, start |-> -1]

\* Outcome of one Morpheme::from call: the Morpheme, or the panic that ends
\* it (an unwrap of an Err, or an index out of range).
Built(m) == [k |-> "Morpheme", m |-> m, e |-> NoErr, cause |-> "-"]
Panicked(r) ==
    [k |-> "Panic", m |-> NoMorpheme, e |-> r.e,
     cause |-> IF r.k = "Err" THEN "unwrap" ELSE "index"]

\* Line 43.
Features(igo_morph) == SplitOn(igo_morph.feature, Comma)

\* A plausible slip: the conjugation form is unwrapped before the word class.
From_FormFirst(igo_morph) ==
    LET features == Features(igo_morph)
        word_class == WordClass_try_from(features)
        conjungation_form == ConjungationForm_try_from(features)
        conjungation_kind == ConjungationKind_try_from(features)
    IN  IF conjungation_form.k # "Ok" THEN Panicked(conjungation_form)
        ELSE IF word_class.k # "Ok" THEN Panicked(word_class)
        ELSE IF conjungation_kind.k # "Ok" THEN Panicked(conjungation_kind)
        ELSE Built([start |-> igo_morph.start,
                    surface |-> igo_morph.surface,
                    basic |-> str_or_empty(features, 6),
                    lexeme |-> str_or_empty(features, 10),
                    reading |-> str_or_empty(features, 9),
                    word_class |-> word_class.v,
                    origin |-> OriginOf(features),
                    conjungation |-> [kind |-> conjungation_kind.v,
                                      form |-> conjungation_form.v]])

\* A plausible slip: the surface is taken from the dictionary form.
From_BasicSurface(igo_morph) ==
    LET features == Features(igo_morph)
        word_class == WordClass_try_from(features)
        conjungation_form == ConjungationForm_try_from(features)
        conjungation_kind == ConjungationKind_try_from(features)
    IN  IF word_class.k # "Ok" THEN Panicked(word_class)
        ELSE IF conjungation_form.k # "Ok" THEN Panicked(conjungation_form)
        ELSE IF conjungation_kind.k # "Ok" THEN Panicked(conjungation_kind)
        ELSE Built([start |-> igo_morph.start,
                    surface |-> str_or_empty(features, 6),
                    basic |-> str_or_empty(features, 6),
                    lexeme |-> str_or_empty(features, 10),
                    reading |-> str_or_empty(features, 9),
                    word_class |-> word_class.v,
                    origin |-> OriginOf(features),
                    conjungation |-> [kind |-> conjungation_kind.v,
                                      form |-> conjungation_form.v]])

\* impl From<IgoMorpheme> for Morpheme (lines 41-76): the three unwraps in
\* source order, then the optional fields.
From(igo_morph) ==
    LET features == Features(igo_morph)
        word_class == WordClass_try_from(features)
        conjungation_form == ConjungationForm_try_from(features)
        conjungation_kind == ConjungationKind_try_from(features)
    IN  IF word_class.k # "Ok" THEN Panicked(word_class)
        ELSE IF conjungation_form.k # "Ok" THEN Panicked(conjungation_form)
        ELSE IF conjungation_kind.k # "Ok" THEN Panicked(conjungation_kind)
        ELSE Built([start |-> igo_morph.start,
                    surface |-> igo_morph.surface,
                    basic |-> str_or_empty(features, 6),
                    lexeme |-> str_or_empty(features, 10),
                    reading |-> str_or_empty(features, 9),
                    word_class |-> word_class.v,
                    origin |-> OriginOf(features),
                    conjungation |-> [kind |-> conjungation_kind.v,
                                      form |-> conjungation_form.v]])

\* ------------------------------------------------------------------ inputs
\* The tagger and its dictionary are external: what follows enumerates the
\* feature strings it may hand over.  Unknown is a spelling no table holds.
Unknown == Str("zz")
Basic == Str("hashiru")
Reading == Str("hashiruYomi")
Lexeme == Str("hashiruLex")
Shuushikei == Str("shuushikei")

RECURSIVE Stars(_)
Stars(k) == IF k <= 0 THEN <<>> ELSE <<Star>> \o Stars(k - 1)

\* The first n fields of a tuple laid out by the tagger's schema.
Tuple(f0, f1, f4, f5, f12, n) ==
    SubSeq(<<f0, f1, Star, Star, f4, f5, Basic, Star, Star, Reading, Lexeme,
             Star, f12>> \o Stars(MaxFields - 13), 1, n)

RECURSIVE Join(_)
Join(fs) == IF Len(fs) = 1 THEN fs[1] ELSE fs[1] \o <<Comma>> \o Join(Tail(fs))

Composite(h, d, t) == h \o <<d>> \o t
Delims == {DelimA, DelimB}

F0 == WordClassTags \cup {Unknown, Empty, Meishi \o Unknown}
F1 == NounTags \cup ParticleTags \cup {Star, Unknown, Empty}
F4Heads == VerbGroupTags \cup {Unknown, Star, Empty}
F4Tails == RowTags \cup {Unknown, Star, Empty}
F4 == F4Heads
        \cup {Composite(h, d, t) : h \in F4Heads, d \in Delims, t \in F4Tails}
        \cup {Composite(Composite(h, d, t), e, Unknown) :
                 h \in {Str("godan"), Str("sagyouHenkaku")},
                 d \in Delims, t \in {Str("ra"), Unknown}, e \in Delims}
F5Heads == FormTags \cup {Unknown, Empty}
F5 == F5Heads
        \cup {Composite(h, d, Unknown) : h \in F5Heads, d \in Delims}
        \cup {Composite(Composite(Shuushikei, DelimB, Unknown), DelimA, Unknown)}
F12 == {Kan, Wa, Star, Unknown, Empty}

\* Every string of at most MaxLen symbols over both delimiters and two others.
SplitAlphabet == {DelimA, DelimB, "x", "y"}
SplitInputs == UNION {[1..k -> SplitAlphabet] : k \in 0..MaxLen}

GodanRa == Composite(Str("godan"), DelimA, Str("ra"))

FeatureTuples ==
    {Tuple(f0, f1, f4, f5, Star, n) :
        f0 \in F0, f1 \in F1, f4 \in {Star, GodanRa}, f5 \in {Star, Unknown},
        n \in 1..MaxFields}
    \cup {Tuple(f0, Star, f4, f5, Star, n) :
        f0 \in {Doushi, Jodoushi}, f4 \in F4, f5 \in {Shuushikei, Unknown},
        n \in {5, 6, MaxFields}}
    \cup {Tuple(f0, Star, f4, Star, Star, 6) :
        f0 \in {Doushi, Jodoushi}, f4 \in SplitInputs}
    \cup {Tuple(f0, f1, Star, f5, Star, n) :
        f0 \in {Fukushi, Unknown, Meishi},
        f1 \in {Star, Str("koyuuMeishi"), Unknown}, f5 \in F5,
        n \in {5, 6, 7, MaxFields}}
    \cup {Tuple(f0, Star, Star, Star, f12, n) :
        f0 \in {Fukushi, Unknown}, f12 \in F12, n \in 11..MaxFields}

\* One morpheme spanning the whole text.
Surface == Str("hashitta")
SingleOutputs == {<<IgoM(Surface, 0, Join(t))>> : t \in FeatureTuples}

\* Several morphemes: the i-th spans i symbols right after the (i-1)-th.
SeqPool ==
    {Join(Tuple(Doushi, Star, GodanRa, Shuushikei, Wa, MaxFields)),
     Join(Tuple(Meishi, Str("futsuuMeishi"), Star, Star, Kan, 13)),
     Join(Tuple(Jodoushi, Star, Unknown, Str("renyoukei"), Star, 6)),
     Join(Tuple(Unknown, Star, Star, Star, Star, 6)),
     Join(Tuple(Joshi, Str("kakuJoshi"), Star, Unknown, Star, 6)),
     Join(Tuple(Fukushi, Star, Star, Star, Star, 3))}
RECURSIVE Sym(_)
Sym(i) == IF i = 0 THEN <<>> ELSE <<"c">> \o Sym(i - 1)
StartOf(i) == (i * (i - 1)) \div 2
SeqOutputs ==
    UNION {{[i \in 1..n |-> IgoM(Sym(i), StartOf(i), fs[i])] :
               fs \in [1..n -> SeqPool]} : n \in 0..MaxMorphs}

TaggerOutputs == SingleOutputs \cup SeqOutputs

\* ------------------------------------------------------------------- state
VARIABLES
    morphs,   \* Parser::parse: the Vec the tagger returned for the text
    iter,     \* elements taken from its into_iter() so far
    vec,      \* the Vec being collected
    pc,       \* "idle" | "collect" | "returned" | "panicked", or
              \* "split" | "splitDone" for split_type on its own
    ret,      \* the value parse returned, if it did
    cur,      \* the latest Morpheme::from call: its argument and outcome
    inp,      \* split_type called on its own: the argument
    halves    \* ... and the pair it returned

vars == <<morphs, iter, vec, pc, ret, cur, inp, halves>>

NoRet == [some |-> FALSE, v |-> <<>>]
NoCur == [called |-> FALSE, igo |-> IgoM(Empty, -1, Empty),
          out |-> [k |-> "-", m |-> NoMorpheme, e |-> NoErr, cause |-> "-"]]

\* Parser::new succeeded (lines 15-18); nothing has been parsed.
Init ==
    /\ morphs = <<>>
    /\ iter = 0
    /\ vec = <<>>
    /\ pc = "idle"
    /\ ret = NoRet
    /\ cur = NoCur
    /\ inp = Empty
    /\ halves = <<Empty, Empty>>

\* parse(text), line 22: the tagger returns its morphemes for the text.  The
\* parser keeps nothing between calls, so one call per behaviour is modelled.
Call ==
    /\ pc = "idle"
    /\ \E out \in TaggerOutputs : morphs' = out
    /\ iter' = 0
    /\ vec' = <<>>
    /\ pc' = "collect"
    /\ ret' = NoRet
    /\ cur' = NoCur
    /\ UNCHANGED <<inp, halves>>

\* A plausible slip: an element that fails to classify is skipped
\* (filter_map) instead of ending the call.
MapNext_SkipFailed ==
    /\ pc = "collect"
    /\ iter < Len(morphs)
    /\ LET igo == morphs[iter + 1]
           out == From(igo)
       IN  /\ cur' = [called |-> TRUE, igo |-> igo, out |-> out]
           /\ iter' = iter + 1
           /\ vec' = IF out.k = "Morpheme" THEN Append(vec, out.m) ELSE vec
           /\ pc' = "collect"
    /\ UNCHANGED <<morphs, ret, inp, halves>>

\* Lines 23-25: collect() pulls the next element through map(Morpheme::from).
\* A panic unwinds out of parse: the partly built Vec is dropped and nothing
\* is returned.
MapNext ==
    /\ pc = "collect"
    /\ iter < Len(morphs)
    /\ LET igo == morphs[iter + 1]
           out == From(igo)
       IN  /\ cur' = [called |-> TRUE, igo |-> igo, out |-> out]
           /\ iter' = iter + 1
           /\ vec' = IF out.k = "Morpheme" THEN Append(vec, out.m) ELSE <<>>
           /\ pc' = IF out.k = "Morpheme" THEN "collect" ELSE "panicked"
    /\ UNCHANGED <<morphs, ret, inp, halves>>

\* Lines 25-26: the iterator is exhausted and parse returns the Vec.
Return ==
    /\ pc = "collect"
    /\ iter = Len(morphs)
    /\ ret' = [some |-> TRUE, v |-> vec]
    /\ pc' = "returned"
    /\ UNCHANGED <<morphs, iter, vec, cur, inp, halves>>

Next == Call \/ MapNext \/ Return

Spec == Init /\ [][Next]_vars

\* split_type applied to a string of its own.
SplitInit ==
    /\ morphs = <<>>
    /\ iter = 0
    /\ vec = <<>>
    /\ pc = "split"
    /\ ret = NoRet
    /\ cur = NoCur
    /\ inp = Empty
    /\ halves = <<Empty, Empty>>

SplitCall ==
    /\ pc = "split"
    /\ \E s \in SplitInputs :
          /\ inp' = s
          /\ halves' = split_type(s)
    /\ pc' = "splitDone"
    /\ UNCHANGED <<morphs, iter, vec, ret, cur>>

SplitNext == SplitCall

SplitSpec == SplitInit /\ [][SplitNext]_vars

\* ------------------------------------------------------------------ claims
\* The tuple of the latest Morpheme::from call, and what the call made of it.
CurF == Features(cur.igo)
CurBuilt == cur.called /\ cur.out.k = "Morpheme"
CurPanicked == cur.called /\ cur.out.k = "Panic"
\* A result is the given error, or the given value.
IsErr(r, msg, tag) ==
    r.k = "Err" /\ r.e = [msg |-> msg, tag |-> tag, index |-> -1]
IsOk(r, v) == r.k = "Ok" /\ r.v = v

\* C1 (as claimed): whatever its length, no tuple makes the builder fault on
\* an absent position; with fewer than 11 fields the lexeme is the empty
\* string and with fewer than 13 the origin is None.
C1_AbsentPositionsNeverFault ==
    cur.called =>
        /\ cur.out.cause # "index"
        /\ (Len(CurF) < 11 /\ cur.out.k = "Morpheme" => cur.out.m.lexeme = Empty)
        /\ (Len(CurF) < 13 /\ cur.out.k = "Morpheme" => cur.out.m.origin = None)

\* The first element of the tagger's output whose classification fails
\* (0: none does).
FirstFailing(ms) ==
    IF \A i \in 1..Len(ms) : From(ms[i]).k = "Morpheme" THEN 0
    ELSE CHOOSE k \in 1..Len(ms) :
             /\ From(ms[k]).k = "Panic"
             /\ \A j \in 1..(k - 1) : From(ms[j]).k = "Morpheme"

\* C2: when element k is the first whose classification fails, parse returns
\* no morpheme sequence at all, the morphemes built before k are gone, and
\* no element after k is ever taken from the iterator.
C2_ParseFailsWhole ==
    FirstFailing(morphs) # 0 =>
        /\ ~ret.some
        /\ pc # "returned"
        /\ iter <= FirstFailing(morphs)
        /\ (pc = "panicked" =>
               /\ iter = FirstFailing(morphs)
               /\ cur.igo = morphs[iter]
               /\ vec = <<>>)
        /\ (iter = FirstFailing(morphs) => pc = "panicked")

C2_Witness ==
    /\ pc = "panicked"
    /\ Len(morphs) = 3
    /\ iter = 2
    /\ cur.out.e.msg = "wc not found"

\* C3: when every element classifies, the output has as many morphemes as
\* the tagger returned, the i-th is the classification of the i-th element,
\* and it carries that element's surface and start.
C3_ParsePreservesSequence ==
    ret.some =>
        /\ Len(ret.v) = Len(morphs)
        /\ \A i \in 1..Len(morphs) :
              /\ ret.v[i] = From(morphs[i]).m
              /\ ret.v[i].surface = morphs[i].surface
              /\ ret.v[i].start = morphs[i].start

C3_Witness ==
    /\ ret.some
    /\ Len(ret.v) = 3
    /\ ret.v[1].word_class.class # ret.v[2].word_class.class
    /\ ret.v[2].start = 1
    /\ ret.v[3].surface = Sym(3)
    /\ ret.v[3].basic = Basic

\* C4 (as claimed): a tuple of 13 or fewer fields has no origin; a longer one
\* has the origin field 12 spells.
C4_OriginOnlyAbove13 ==
    CurBuilt =>
        cur.out.m.origin =
            IF Len(CurF) <= 13 THEN None
            ELSE IF Idx(CurF, 12) = Kan THEN "China"
            ELSE IF Idx(CurF, 12) = Wa THEN "Japan"
            ELSE None

\* C4 (amended): a tuple of 12 or fewer fields has no origin; one of 13 or
\* more has China or Japan when field 12 is the matching marker and no
\* origin for any other value; and the builder fails only when one of its
\* three mandatory classifiers does, never over the origin.
C4_OriginFromField12 ==
    /\ CurBuilt =>
          cur.out.m.origin =
              IF Len(CurF) <= 12 THEN None
              ELSE IF Idx(CurF, 12) = Kan THEN "China"
              ELSE IF Idx(CurF, 12) = Wa THEN "Japan"
              ELSE None
    /\ CurPanicked =>
          cur.out.e \in {WordClass_try_from(CurF).e,
                         ConjungationForm_try_from(CurF).e,
                         ConjungationKind_try_from(CurF).e} \ {NoErr}

C4_Witness ==
    /\ CurBuilt
    /\ Len(CurF) = 13
    /\ Idx(CurF, 12) = Kan
    /\ cur.out.m.origin = "China"

\* The halves of the two composite fields of the latest tuple.
CurGroup == split_type(Idx(CurF, 4))[1]
CurRow == split_type(Idx(CurF, 4))[2]
CurForm == split_type(Idx(CurF, 5))[1]

\* Rejection by the dimensions that have an enumeration: a tag outside it
\* yields the dimension's error with that tag; the conjugation-form marker
\* IshiSuiryoukei is accepted as the None form.
RejectsOutsideEnumeration(f) ==
    /\ Idx(f, 0) \notin WordClassTags =>
          IsErr(WordClass_try_from(f), "wc not found", Idx(f, 0))
    /\ Idx(f, 0) \notin {Keiyoushi, Keijoushi} =>
          IsErr(AdjectiveType_try_from(f), "adjective not found", Idx(f, 0))
    /\ Has(f, 1) /\ Idx(f, 1) \notin NounTags =>
          /\ IsErr(NounType_try_from(f), "Nountype not found", Idx(f, 1))
          /\ Idx(f, 0) = Meishi =>
                IsErr(WordClass_try_from(f), "Nountype not found", Idx(f, 1))
    /\ Has(f, 1) /\ Idx(f, 1) \notin ParticleTags =>
          /\ IsErr(ParticleType_try_from(f), "particle not found", Idx(f, 1))
          /\ Idx(f, 0) = Joshi =>
                IsErr(WordClass_try_from(f), "particle not found", Idx(f, 1))
    /\ Has(f, 4) /\ Idx(f, 0) \notin {Jodoushi, Doushi} =>
          IsErr(VerbType_try_from(f), "Verb not found", Idx(f, 0))
    /\ Has(f, 4) =>
          LET vt == split_type(Idx(f, 4))
          IN  /\ vt[1] \notin VerbGroupTags =>
                    /\ IsErr(parse_general(Idx(f, 4)), "Verbtype not found", vt[1])
                    /\ Idx(f, 0) = Doushi =>
                          IsErr(WordClass_try_from(f), "Verbtype not found", vt[1])
              /\ vt[2] \notin RowTags =>
                    /\ IsErr(SyllableRow_try_from(vt[2]),
                             "Syllable ending not found", vt[2])
                    /\ Idx(f, 0) = Doushi /\ vt[1] \in GodanTags \cup IchidanTags =>
                          IsErr(WordClass_try_from(f), "Syllable ending not found", vt[2])
    /\ Has(f, 5) =>
          LET t == split_type(Idx(f, 5))[1]
          IN  /\ t \notin FormTags =>
                    IsErr(ConjungationForm_try_from(f), "conjungation form not found", t)
              /\ t = IshiSuiryoukei => IsOk(ConjungationForm_try_from(f), "None")

\* The match of ConjungationKind::try_from names no spelling (line 107).
KindTags == {}

\* C5 (as claimed): every dimension, conjugation kind included, rejects the
\* tags outside its enumeration with an error.
C5_EveryDimensionRejects ==
    cur.called =>
        /\ RejectsOutsideEnumeration(CurF)
        /\ Has(CurF, 4) /\ Idx(CurF, 4) \notin KindTags =>
              ConjungationKind_try_from(CurF).k = "Err"

\* C5 (amended): word class, noun, particle, adjective and verb subtype,
\* syllable row and conjugation form reject every tag outside their
\* enumeration with the dimension's error carrying that tag, the one
\* conjugation-form marker excepted; conjugation kind rejects nothing and
\* resolves every field 4 to its single value.
C5_ClosedEnumerationRejection ==
    cur.called =>
        /\ RejectsOutsideEnumeration(CurF)
        /\ Has(CurF, 4) => IsOk(ConjungationKind_try_from(CurF), "None")

C5_Witness ==
    /\ CurPanicked
    /\ Has(CurF, 5)
    /\ Idx(CurF, 0) = Doushi
    /\ CurGroup \in GodanTags
    /\ CurRow = Unknown
    /\ cur.out.e = [msg |-> "Syllable ending not found", tag |-> Unknown, index |-> -1]

\* C6: when the word-class dimension (its subtype included) and the
\* conjugation-form dimension both carry unrecognised tags, the builder
\* fails with the word-class error alone and no Morpheme is constructed.
C6_WordClassErrorFirst ==
    cur.called /\ Has(CurF, 5) /\ CurForm \notin FormTags =>
        /\ Idx(CurF, 0) \notin WordClassTags =>
              /\ cur.out.k = "Panic"
              /\ cur.out.cause = "unwrap"
              /\ cur.out.e = [msg |-> "wc not found", tag |-> Idx(CurF, 0), index |-> -1]
              /\ cur.out.m = NoMorpheme
              /\ pc = "panicked"
              /\ vec = <<>>
        /\ Idx(CurF, 0) = Meishi /\ Idx(CurF, 1) \notin NounTags =>
              /\ cur.out.k = "Panic"
              /\ cur.out.e = [msg |-> "Nountype not found", tag |-> Idx(CurF, 1), index |-> -1]
              /\ pc = "panicked"
        /\ Idx(CurF, 0) = Doushi /\ CurGroup \notin VerbGroupTags =>
              /\ cur.out.k = "Panic"
              /\ cur.out.e = [msg |-> "Verbtype not found", tag |-> CurGroup, index |-> -1]
              /\ pc = "panicked"

C6_Witness ==
    /\ cur.called
    /\ Has(CurF, 5)
    /\ CurForm = Unknown
    /\ Idx(CurF, 0) = Unknown
    /\ cur.out.e.msg = "wc not found"
    /\ pc = "panicked"

\* C7 (as claimed): a classified Noun has a subtype in {Common, Proper,
\* Numeral} and a classified Verb one in {Auxilary, Godan, Ichidan, Suru,
\* Kuru, IrregRu, IrregNu}.
C7_SubtypesInDocumentedSets ==
    cur.called /\ WordClass_try_from(CurF).k = "Ok" =>
        LET wc == WordClass_try_from(CurF).v
        IN  /\ wc.class = "Noun" => wc.sub \in {"Common", "Proper", "Numeral"}
            /\ wc.class = "Verb" =>
                  wc.sub \in {"Auxilary", "Godan", "Ichidan", "Suru", "Kuru",
                              "IrregRu", "IrregNu"}

\* C7 (amended): a classified Noun has a subtype in {Common, Proper, Numeral,
\* Suffix, Jodoushi} and a classified Verb one in {Auxilary, Godan, Ichidan,
\* Suru, Kuru, IrregRu, IrregNu, IrrWrittenLang}; Godan and Ichidan, and only
\* they, carry one of the 15 rows.
C7_SubtypesInCodeSets ==
    cur.called /\ WordClass_try_from(CurF).k = "Ok" =>
        LET wc == WordClass_try_from(CurF).v
        IN  /\ wc.class = "Noun" =>
                  wc.sub \in {"Common", "Proper", "Numeral", "Suffix", "Jodoushi"}
            /\ wc.class = "Verb" =>
                  /\ wc.sub \in {"Auxilary", "Godan", "Ichidan", "Suru", "Kuru",
                                 "IrregRu", "IrregNu", "IrrWrittenLang"}
                  /\ wc.sub \in {"Godan", "Ichidan"} <=>
                        wc.row \in {RowTable[w] : w \in DOMAIN RowTable}
                  /\ wc.sub \notin {"Godan", "Ichidan"} <=> wc.row = NoRow

C7_Witness ==
    /\ CurBuilt
    /\ cur.out.m.word_class.class = "Verb"
    /\ cur.out.m.word_class.sub = "IrrWrittenLang"

VerbWC(sub, row) == WC("Verb", sub, row, Empty)

\* C8: for a main verb whose group half is a Godan or Ichidan spelling,
\* classification succeeds exactly when the row half is one of the 15 row
\* tags, and then yields that group with that row; otherwise it fails with
\* the row error.  For the Suru, Kuru, IrregRu and IrregNu spellings the row
\* half is ignored, and every spelling of a group gives the same variant.
C8_MainVerbRowResolution ==
    /\ Cardinality(RowTags) = 15
    /\ cur.called /\ Has(CurF, 4) /\ Idx(CurF, 0) = Doushi =>
          LET wc == WordClass_try_from(CurF)
          IN  /\ CurGroup \in GodanTags \cup IchidanTags =>
                    /\ wc.k = "Ok" <=> CurRow \in RowTags
                    /\ CurRow \in RowTags =>
                          IsOk(wc, VerbWC(IF CurGroup \in GodanTags THEN "Godan"
                                          ELSE "Ichidan", RowTable[CurRow[1]]))
                    /\ CurRow \notin RowTags =>
                          IsErr(wc, "Syllable ending not found", CurRow)
              /\ CurGroup \in SuruTags => IsOk(wc, VerbWC("Suru", NoRow))
              /\ CurGroup \in KuruTags => IsOk(wc, VerbWC("Kuru", NoRow))
              /\ CurGroup \in IrregRuTags => IsOk(wc, VerbWC("IrregRu", NoRow))
              /\ CurGroup \in IrregNuTags => IsOk(wc, VerbWC("IrregNu", NoRow))

C8_Witness ==
    /\ CurBuilt
    /\ Idx(CurF, 0) = Doushi
    /\ Idx(CurF, 4) = Composite(Str("bungoYodan"), DelimB, Str("waa"))
    /\ cur.out.m.word_class = WC("Verb", "Godan", "Wa", Empty)

\* Positions of d in s, and the least of a non-empty set of positions.
Occ(s, d) == {i \in 1..Len(s) : s[i] = d}
Least(S) == CHOOSE i \in S : \A j \in S : i <= j

\* C9: split_type splits on "-" when the string contains one and on the
\* second delimiter only when it does not; the first half is the text before
\* the first occurrence of that delimiter and the second the text from there
\* to its next occurrence or to the end; a string with neither delimiter
\* gives (whole string, empty string).
C9_SplitType ==
    pc = "splitDone" =>
        LET d == IF Occ(inp, DelimA) # {} THEN DelimA ELSE DelimB
            o == Occ(inp, d)
        IN  IF o = {} THEN halves = <<inp, Empty>>
            ELSE LET p == Least(o)
                     rest == o \ {p}
                     q == IF rest = {} THEN Len(inp) + 1 ELSE Least(rest)
                 IN  /\ halves[1] = SubSeq(inp, 1, p - 1)
                     /\ halves[2] = SubSeq(inp, p + 1, q - 1)

C9_Witness ==
    /\ pc = "splitDone"
    /\ inp = <<"x", DelimB, "y", DelimA, DelimA>>
    /\ halves = <<(<<"x", DelimB, "y">>), Empty>>

\* C10: a tuple whose field 0 is the auxiliary-verb spelling classifies as
\* Verb(Auxilary(s)) for any content of field 4, s being the second half the
\* splitter returns for field 4 (empty without a delimiter); neither half is
\* checked against the group or row enumerations.
C10_AuxiliaryBypass ==
    cur.called /\ Has(CurF, 4) /\ Idx(CurF, 0) = Jodoushi =>
        /\ IsOk(WordClass_try_from(CurF), WC("Verb", "Auxilary", NoRow, CurRow))
        /\ Occ(Idx(CurF, 4), DelimA) \cup Occ(Idx(CurF, 4), DelimB) = {} =>
              WordClass_try_from(CurF).v.raw = Empty
        /\ cur.out.k = "Panic" => cur.out.e.msg \notin
              {"Verbtype not found", "Syllable ending not found", "Verb not found"}

C10_Witness ==
    /\ CurBuilt
    /\ Idx(CurF, 0) = Jodoushi
    /\ CurGroup = Unknown
    /\ CurRow = Unknown
    /\ cur.out.m.word_class = WC("Verb", "Auxilary", NoRow, Unknown)

=============================================================================
